---- MODULE Spec2Model ----
(***************************************************************************)
(* Model of src/src/components/ImageToPDF.jsx: the image list kept by the  *)
(* ImageToPDF component, its event handlers, and the asynchronous export   *)
(* generatePDF.                                                            *)
(*                                                                         *)
(* JavaScript numbers are IEEE-754 binary64.  The page layout of           *)
(* generatePDF divides and multiplies, so its results are rounded; the     *)
(* first part of the module is binary64 arithmetic (round to nearest,      *)
(* ties to even) over arbitrary-precision naturals, which the layout       *)
(* operators further down use.  Exponent overflow and subnormals are out   *)
(* of reach of the pixel sizes considered and are not modelled.            *)
(***************************************************************************)
EXTENDS Integers, Sequences, FiniteSets, TLC

(***************************************************************************)
(* Arbitrary-precision naturals: little-endian sequences of limbs in       *)
(* 0..LIMB-1 without leading zero limbs; << >> is zero.                    *)
(***************************************************************************)
LIMB == 2^15

Pow2(n) == 2^n

\* F of the value of e: e is evaluated once, whatever use F makes of it
With(e, F(_)) == CHOOSE r \in { F(v) : v \in { e } } : TRUE

\* the number of limbs of a without its leading zero limbs
RECURSIVE NormLen(_, _)
NormLen(a, n) == IF n = 0 THEN 0 ELSE IF a[n] # 0 THEN n ELSE NormLen(a, n - 1)

BigNorm(a) == SubSeq(a, 1, NormLen(a, Len(a)))

RECURSIVE BigOfNat(_)
BigOfNat(n) ==
    IF n = 0 THEN << >> ELSE << n % LIMB >> \o BigOfNat(n \div LIMB)

Limb(a, k) == IF k <= Len(a) THEN a[k] ELSE 0

MaxOf(x, y) == IF x >= y THEN x ELSE y

\* the limbs k, k+1, .. of a + b + carry * LIMB^(k-1)
RECURSIVE BigAddFrom(_, _, _, _)
BigAddFrom(a, b, k, carry) ==
    IF k > MaxOf(Len(a), Len(b))
    THEN (IF carry = 0 THEN << >> ELSE << carry >>)
    ELSE LET s == Limb(a, k) + Limb(b, k) + carry
         IN  << s % LIMB >> \o BigAddFrom(a, b, k + 1, s \div LIMB)

BigAdd(a, b) == BigNorm(BigAddFrom(a, b, 1, 0))

\* the limbs k, k+1, .. of a - b - borrow * LIMB^(k-1), for a >= b
RECURSIVE BigSubFrom(_, _, _, _)
BigSubFrom(a, b, k, borrow) ==
    IF k > Len(a) THEN << >>
    ELSE LET d == Limb(a, k) - Limb(b, k) - borrow
         IN  IF d < 0
             THEN << d + LIMB >> \o BigSubFrom(a, b, k + 1, 1)
             ELSE << d >> \o BigSubFrom(a, b, k + 1, 0)

BigSub(a, b) == BigNorm(BigSubFrom(a, b, 1, 0))

\* -1, 0, 1 as a < b, a = b, a > b
RECURSIVE BigCmpFrom(_, _, _)
BigCmpFrom(a, b, k) ==
    IF k = 0 THEN 0
    ELSE IF a[k] < b[k] THEN -1
    ELSE IF a[k] > b[k] THEN 1
    ELSE BigCmpFrom(a, b, k - 1)

BigCmp(a, b) ==
    IF Len(a) < Len(b) THEN -1
    ELSE IF Len(a) > Len(b) THEN 1
    ELSE BigCmpFrom(a, b, Len(a))

\* the limbs k, k+1, .. of a * n + carry * LIMB^(k-1), for 0 <= n < LIMB
RECURSIVE BigMulSmallFrom(_, _, _, _)
BigMulSmallFrom(a, n, k, carry) ==
    IF k > Len(a)
    THEN (IF carry = 0 THEN << >> ELSE << carry >>)
    ELSE LET p == a[k] * n + carry
         IN  << p % LIMB >> \o BigMulSmallFrom(a, n, k + 1, p \div LIMB)

BigMulSmall(a, n) == BigNorm(BigMulSmallFrom(a, n, 1, 0))

Zeros(n) == [k \in 1..n |-> 0]

\* a * (the limbs j, j+1, .. of b) * LIMB^(j-1)
RECURSIVE BigMulFrom(_, _, _)
BigMulFrom(a, b, j) ==
    IF j > Len(b) THEN << >>
    ELSE BigAdd(Zeros(j - 1) \o BigMulSmall(a, b[j]), BigMulFrom(a, b, j + 1))

BigMul(a, b) == BigMulFrom(a, b, 1)

\* a * 2^n
BigShl(a, n) == BigNorm(Zeros(n \div 15) \o BigMulSmall(a, Pow2(n % 15)))

\* limb-wise a \div 2^r for 0 <= r < 15
BigShrSmall(a, r) ==
    [k \in 1..Len(a) |-> (a[k] \div Pow2(r)) + (Limb(a, k + 1) % Pow2(r)) * Pow2(15 - r)]

\* floor(a / 2^n)
BigShr(a, n) ==
    IF n \div 15 >= Len(a) THEN << >>
    ELSE BigNorm(BigShrSmall(SubSeq(a, (n \div 15) + 1, Len(a)), n % 15))

RECURSIVE BitLenNat(_)
BitLenNat(n) == IF n = 0 THEN 0 ELSE 1 + BitLenNat(n \div 2)

BigBitLen(a) == IF a = << >> THEN 0 ELSE 15 * (Len(a) - 1) + BitLenNat(a[Len(a)])

BigIsOdd(a) == a # << >> /\ a[1] % 2 = 1

\* a mod 2^n
BigLow(a, n) == BigSub(a, BigShl(BigShr(a, n), n))

\* the largest d with b * d <= r, for d at most the too large estimate
RECURSIVE Fit(_, _, _)
Fit(d, r, b) == IF BigCmp(BigMulSmall(b, d), r) > 0 THEN Fit(d - 1, r, b) ELSE d

\* the estimate of r \div b from the two leading limbs of r and the leading limb
\* of b, for r < b * LIMB and b with a leading limb of at least LIMB / 2: at
\* least the quotient, and at most 2 more
Estimate(r, b) ==
    LET n == Len(b)
        d == (Limb(r, n + 1) * LIMB + Limb(r, n)) \div b[n]
    IN  IF d >= LIMB THEN LIMB - 1 ELSE d

\* One step of long division in base LIMB: from s = <<q, r>>, the quotient and
\* remainder of some n by b, those of n * LIMB by b
DivStep(s, b) ==
    With(BigNorm(<< 0 >> \o s[2]), LAMBDA r :
    With(Fit(Estimate(r, b), r, b), LAMBDA d :
        << << d >> \o s[1], BigSub(r, BigMulSmall(b, d)) >>))

RECURSIVE DivSteps(_, _, _)
DivSteps(s, b, k) ==
    IF k = 0 THEN s
    ELSE With(DivStep(s, b), LAMBDA t : DivSteps(t, b, k - 1))

\* <<quotient, remainder # 0>> of a * LIMB^k by b, for 2^52 <= a, b < 2^53: both
\* are scaled by 2^7, which makes the leading limb of b at least LIMB / 2
BigDivScaled(a, b, k) ==
    With(<< BigShl(a, 7), BigShl(b, 7) >>, LAMBDA v :
    With(DivSteps(IF BigCmp(v[1], v[2]) >= 0
                  THEN << << 1 >>, BigSub(v[1], v[2]) >>
                  ELSE << << 0 >>, v[1] >>, v[2], k), LAMBDA s :
        << BigNorm(s[1]), s[2] # << >> >>))

(***************************************************************************)
(* binary64 values: cls is "num" (finite), "inf" or "nan"; a finite value  *)
(* is (-1)^neg * m * 2^e with m = 0 (then e = 0, neg = FALSE) or            *)
(* 2^52 <= m < 2^53, so equal values are equal records.                    *)
(***************************************************************************)
FZero == [cls |-> "num", neg |-> FALSE, m |-> << >>, e |-> 0]
FNaN == [cls |-> "nan", neg |-> FALSE, m |-> << >>, e |-> 0]
FInf(neg) == [cls |-> "inf", neg |-> neg, m |-> << >>, e |-> 0]
FNum(neg, m, e) == [cls |-> "num", neg |-> neg, m |-> m, e |-> e]

IsZero(a) == a.cls = "num" /\ a.m = << >>

\* m * 2^e rounded to 53 significant bits, to nearest, ties to even, for m
\* of len > 53 bits; sticky says that the exact value is not m * 2^e but lies
\* strictly between it and (m + 1) * 2^e
FRoundDown(neg, m, len, e, sticky) ==
    LET s == len - 53
        c == BigCmp(BigLow(m, s), BigShl(<< 1 >>, s - 1))
    IN  With(BigShr(m, s), LAMBDA q :
        With(IF c > 0 \/ (c = 0 /\ (sticky \/ BigIsOdd(q))) THEN BigAdd(q, << 1 >>) ELSE q,
             LAMBDA q1 :
                 IF BigBitLen(q1) > 53
                 THEN FNum(neg, BigShr(q1, 1), e + s + 1)
                 ELSE FNum(neg, q1, e + s)))

\* m * 2^e as a binary64 value; sticky as above, and only with more than 53 bits
FRound(neg, m, e, sticky) ==
    With(<< m, BigBitLen(m) >>, LAMBDA v :
        IF v[2] = 0 THEN FZero
        ELSE IF v[2] <= 53 THEN FNum(neg, BigShl(v[1], 53 - v[2]), e - (53 - v[2]))
        ELSE FRoundDown(neg, v[1], v[2], e, sticky))

\* the integer n as a Number
FInt(n) == IF n < 0 THEN FRound(TRUE, BigOfNat(-n), 0, FALSE)
           ELSE FRound(FALSE, BigOfNat(n), 0, FALSE)

FNeg(a) == With(a, LAMBDA v : IF v.cls = "nan" \/ IsZero(v) THEN v ELSE [v EXCEPT !.neg = ~v.neg])

FDivValues(a, b) ==
    LET neg == (a.neg # b.neg) IN
    IF a.cls = "nan" \/ b.cls = "nan" THEN FNaN
    ELSE IF a.cls = "inf" THEN (IF b.cls = "inf" THEN FNaN ELSE FInf(neg))
    ELSE IF b.cls = "inf" THEN FZero
    ELSE IF IsZero(b) THEN (IF IsZero(a) THEN FNaN ELSE FInf(neg))
    ELSE IF IsZero(a) THEN FZero
    ELSE With(BigDivScaled(a.m, b.m, 4), LAMBDA qr :
             FRound(neg, qr[1], a.e - b.e - 60, qr[2]))

\* a / b
FDiv(a, b) == With(<< a, b >>, LAMBDA v : FDivValues(v[1], v[2]))

FMulValues(a, b) ==
    LET neg == (a.neg # b.neg) IN
    IF a.cls = "nan" \/ b.cls = "nan" THEN FNaN
    ELSE IF a.cls = "inf" \/ b.cls = "inf"
    THEN (IF IsZero(a) \/ IsZero(b) THEN FNaN ELSE FInf(neg))
    ELSE IF IsZero(a) \/ IsZero(b) THEN FZero
    ELSE FRound(neg, BigMul(a.m, b.m), a.e + b.e, FALSE)

\* a * b
FMul(a, b) == With(<< a, b >>, LAMBDA v : FMulValues(v[1], v[2]))

\* -1, 0, 1 as |a| < |b|, |a| = |b|, |a| > |b|, for finite a and b
FCmpMag(a, b) ==
    IF IsZero(a) THEN (IF IsZero(b) THEN 0 ELSE -1)
    ELSE IF IsZero(b) THEN 1
    ELSE IF a.e < b.e THEN -1
    ELSE IF a.e > b.e THEN 1
    ELSE BigCmp(a.m, b.m)

FAddValues(a, b) ==
    IF a.cls = "nan" \/ b.cls = "nan" THEN FNaN
    ELSE IF a.cls = "inf"
    THEN (IF b.cls = "inf" /\ b.neg # a.neg THEN FNaN ELSE a)
    ELSE IF b.cls = "inf" THEN b
    ELSE IF IsZero(a) THEN b
    ELSE IF IsZero(b) THEN a
    ELSE LET lo == IF a.e <= b.e THEN a.e ELSE b.e
         IN  With(<< BigShl(a.m, a.e - lo), BigShl(b.m, b.e - lo) >>, LAMBDA ab :
                 IF a.neg = b.neg THEN FRound(a.neg, BigAdd(ab[1], ab[2]), lo, FALSE)
                 ELSE IF BigCmp(ab[1], ab[2]) >= 0
                 THEN FRound(a.neg, BigSub(ab[1], ab[2]), lo, FALSE)
                 ELSE FRound(b.neg, BigSub(ab[2], ab[1]), lo, FALSE))

\* a + b
FAdd(a, b) == With(<< a, b >>, LAMBDA v : FAddValues(v[1], v[2]))

\* a - b
FSub(a, b) == FAdd(a, FNeg(b))

FGtValues(a, b) ==
    IF a.cls = "nan" \/ b.cls = "nan" THEN FALSE
    ELSE IF a.cls = "inf" THEN ~a.neg /\ ~(b.cls = "inf" /\ ~b.neg)
    ELSE IF b.cls = "inf" THEN b.neg
    ELSE IF a.neg # b.neg THEN b.neg
    ELSE IF a.neg THEN FCmpMag(a, b) < 0
    ELSE FCmpMag(a, b) > 0

\* a > b (false when either is NaN)
FGt(a, b) == With(<< a, b >>, LAMBDA v : FGtValues(v[1], v[2]))

(***************************************************************************)
(* The page layout of generatePDF (lines 135-164).                         *)
(***************************************************************************)
pageWidth == 210
pageHeight == 297
margin == 10
maxWidth == pageWidth - (margin * 2)
maxHeight == pageHeight - (margin * 2)

pageRatio == FDiv(FInt(maxWidth), FInt(maxHeight))

\* the rectangle pdf.addImage is called with for a raster of width x height;
\* final is << finalWidth, finalHeight >>
LayoutFlipped(width, height) ==
    With(FDiv(FInt(width), FInt(height)), LAMBDA imgRatio :
    With(IF FGt(pageRatio, imgRatio)
         THEN << FInt(maxWidth), FDiv(FInt(maxWidth), imgRatio) >>
         ELSE << FMul(FInt(maxHeight), imgRatio), FInt(maxHeight) >>, LAMBDA final :
        [x |-> FDiv(FSub(FInt(pageWidth), final[1]), FInt(2)),
         y |-> FDiv(FSub(FInt(pageHeight), final[2]), FInt(2)),
         width |-> final[1],
         height |-> final[2]]))

Layout(width, height) ==
    With(FDiv(FInt(width), FInt(height)), LAMBDA imgRatio :
    With(IF FGt(imgRatio, pageRatio)
         THEN << FInt(maxWidth), FDiv(FInt(maxWidth), imgRatio) >>
         ELSE << FMul(FInt(maxHeight), imgRatio), FInt(maxHeight) >>, LAMBDA final :
        [x |-> FDiv(FSub(FInt(pageWidth), final[1]), FInt(2)),
         y |-> FDiv(FSub(FInt(pageHeight), final[2]), FInt(2)),
         width |-> final[1],
         height |-> final[2]]))

(***************************************************************************)
(* Files the user can pick.  A file has a MIME type <<major, minor>>,      *)
(* whether the browser can decode it as an image, and the natural size of  *)
(* the decoded image.                                                      *)
(***************************************************************************)
File(major, minor, decodes, width, height) ==
    [type |-> << major, minor >>, decodes |-> decodes, width |-> width, height |-> height]

Photo == File("image", "jpeg", TRUE, 4, 3)
Broken == File("image", "png", FALSE, 0, 0)
Blank == File("image", "svg+xml", TRUE, 0, 0)
Notes == File("text", "plain", FALSE, 0, 0)

\* the selections of the file picker that the model tries
Picks == { << Photo >>, << Broken >>, << Blank >>, << Notes >>,
           << Photo, Photo >>, << Notes, Photo >> }

\* file.type.startsWith('image/')
IsImage(file) == file.type[1] = "image"

Rotations == {0, 90, 180, 270}

(***************************************************************************)
(* Bounds of the model.                                                    *)
(***************************************************************************)
MaxImages == 2
MaxRotations == 5
MaxEvents == 6
MaxDim == 13

VARIABLES
    images,         \* useState([]): the list of entries [id, url, file, rotation]
    isGenerating,   \* useState(false)
    nextId,         \* crypto.randomUUID / URL.createObjectURL: the next fresh value
    released,       \* released[url]: the number of URL.revokeObjectURL(url) calls
    pc,             \* generatePDF: "idle", "loading" (suspended at the await of
                    \* line 144) or "stuck" (the awaited promise never settles)
    snap,           \* the images that the running generatePDF closed over
    i,              \* the loop index of generatePDF
    img,            \* the window.Image being loaded, << >> when none: [src, found],
                    \* found telling whether src was a live object URL when set
    pdf,            \* the jsPDF document: a sequence of pages, each the sequence
                    \* of the images placed on it
    saved,          \* the documents pdf.save was called with by the last export
    alerts,         \* the number of alert() calls of the last export
    rots,           \* rots[id]: how many times rotateImage(id) was applied
    events,         \* the number of user events so far
    last,           \* the last handler of the list that ran, with its argument
    lay             \* the render and layout of one image taken alone: its
                    \* entry, then its raster, then its rectangle

storeVars == << images, nextId, released >>
exportVars == << isGenerating, pc, snap, i, img, pdf, saved, alerts >>
vars == << images, isGenerating, nextId, released, pc, snap, i, img, pdf, saved,
           alerts, rots, events, last, lay >>

Ids == 1..MaxImages

NoLayout == [pc |-> "none", entry |-> << >>, raster |-> << >>, rect |-> << >>]

Idle ==
    /\ images = << >>
    /\ isGenerating = FALSE
    /\ nextId = 1
    /\ released = [u \in {} |-> 0]
    /\ pc = "idle"
    /\ snap = << >>
    /\ i = 0
    /\ img = << >>
    /\ pdf = << >>
    /\ saved = << >>
    /\ alerts = 0
    /\ rots = [id \in {} |-> 0]
    /\ events = 0
    /\ last = << >>

Init == Idle /\ lay = NoLayout

(***************************************************************************)
(* The event handlers of the list (lines 21-85).                           *)
(***************************************************************************)
\* files.filter(file => file.type.startsWith('image/'))
RECURSIVE Filter(_)
Filter(files) ==
    IF files = << >> THEN << >>
    ELSE IF IsImage(Head(files)) THEN << Head(files) >> \o Filter(Tail(files))
    ELSE Filter(Tail(files))

handleFileSelect(files) ==
    LET imageFiles == Filter(files)
        newImages == [k \in 1..Len(imageFiles) |->
                        [id |-> nextId + k - 1,
                         file |-> imageFiles[k],
                         url |-> nextId + k - 1,
                         rotation |-> 0]]
    IN  /\ Len(imageFiles) # 0
        /\ images' = images \o newImages
        /\ nextId' = nextId + Len(imageFiles)
        /\ released' = [u \in 1..(nextId' - 1) |-> IF u < nextId THEN released[u] ELSE 0]

\* rotateImage without the "% 360"
rotateImageNoWrap(id) ==
    /\ images' = [k \in 1..Len(images) |->
                    IF images[k].id = id
                    THEN [images[k] EXCEPT !.rotation = images[k].rotation + 90]
                    ELSE images[k]]
    /\ UNCHANGED << nextId, released >>

\* rotateImage without the test of the id
rotateImageAll(id) ==
    /\ images' = [k \in 1..Len(images) |->
                    [images[k] EXCEPT !.rotation = (images[k].rotation + 90) % 360]]
    /\ UNCHANGED << nextId, released >>

rotateImage(id) ==
    /\ images' = [k \in 1..Len(images) |->
                    IF images[k].id = id
                    THEN [images[k] EXCEPT !.rotation = (images[k].rotation + 90) % 360]
                    ELSE images[k]]
    /\ UNCHANGED << nextId, released >>

\* a swap that forgets its second assignment
SwapHalf(list, a, b) == [k \in 1..Len(list) |-> IF k = a THEN list[b] ELSE list[k]]

\* [newImages[index - 1], newImages[index]] = [newImages[index], newImages[index - 1]]
Swap(list, a, b) ==
    [k \in 1..Len(list) |-> IF k = a THEN list[b] ELSE IF k = b THEN list[a] ELSE list[k]]

\* index is the 0-based position of the row whose button was pressed
moveUp(index) ==
    /\ images' = IF index = 0 THEN images ELSE Swap(images, index, index + 1)
    /\ UNCHANGED << nextId, released >>

moveDown(index) ==
    /\ images' = IF index = Len(images) - 1 THEN images
                 ELSE Swap(images, index + 1, index + 2)
    /\ UNCHANGED << nextId, released >>

RECURSIVE WithoutId(_, _)
WithoutId(list, id) ==
    IF list = << >> THEN << >>
    ELSE IF Head(list).id # id THEN << Head(list) >> \o WithoutId(Tail(list), id)
    ELSE WithoutId(Tail(list), id)

\* a removal that forgets to revoke
RevokeNothing(list) == released

\* URL.revokeObjectURL(img.url) for every img of the list
Revoke(list) ==
    [u \in DOMAIN released |->
        released[u] + Cardinality({ k \in 1..Len(list) : list[k].url = u })]

removeImage(id) ==
    LET found == { k \in 1..Len(images) : images[k].id = id }
        first == CHOOSE k \in found : \A j \in found : k <= j
    IN  /\ released' = IF found = {} THEN released ELSE Revoke(<< images[first] >>)
        /\ images' = WithoutId(images, id)
        /\ UNCHANGED nextId

clearAll ==
    /\ released' = Revoke(images)
    /\ images' = << >>
    /\ UNCHANGED nextId

(***************************************************************************)
(* The export (lines 88-179).  generatePDF runs up to its first await when *)
(* the button is pressed; each later step is the load or error event of    *)
(* the image being loaded, with the rest of the loop body and the start of *)
(* the next load (or the save) running in the same turn of the event loop. *)
(***************************************************************************)
\* what the promise of loadImageWithRotation resolves with once the image has
\* loaded; dataUrl stands for the JPEG bytes of that source drawn at that angle
loadImageWithRotation(imageData) ==
    LET isRotated == imageData.rotation = 90 \/ imageData.rotation = 270
    IN  [dataUrl |-> [src |-> imageData.url, rotation |-> imageData.rotation],
         width |-> IF isRotated THEN imageData.file.height ELSE imageData.file.width,
         height |-> IF isRotated THEN imageData.file.width ELSE imageData.file.height]

\* img.src = imageData.url (line 118)
SetSrc(imageData) == << [src |-> imageData.url, found |-> released[imageData.url] = 0] >>

\* the button shows only for a non-empty list and is disabled while generating
generatePDF ==
    /\ Len(images) # 0
    /\ ~isGenerating
    /\ isGenerating' = TRUE
    /\ snap' = images
    /\ i' = 0
    /\ pdf' = << << >> >>
    /\ img' = SetSrc(images[1])
    /\ pc' = "loading"
    /\ saved' = << >>
    /\ alerts' = 0
    /\ UNCHANGED storeVars

\* jsPDF is not part of the repository: for an empty canvas (its data URL holds
\* no image, and the rectangle is degenerate) addImage may throw or not
AddImageMayThrow(imageData) == imageData.width = 0 \/ imageData.height = 0

\* an addImage that draws on the first page, whatever the current page
AddImageFirstPage(doc, imageData, rect) ==
    [doc EXCEPT ![1] = Append(@, [dataUrl |-> imageData.dataUrl, rect |-> rect])]

\* pdf.addImage(...) on the current page
AddImage(doc, imageData, rect) ==
    [doc EXCEPT ![Len(doc)] = Append(@, [dataUrl |-> imageData.dataUrl, rect |-> rect])]

\* the catch and finally blocks (lines 173-178)
Failed ==
    /\ alerts' = alerts + 1
    /\ isGenerating' = FALSE
    /\ pc' = "idle"
    /\ snap' = << >>
    /\ i' = 0
    /\ img' = << >>
    /\ pdf' = << >>
    /\ UNCHANGED saved

\* the rectangle of lines 147-164 for each size a file of Picks can be drawn
\* at, computed once
Sizes ==
    UNION { UNION { { << files[k].width, files[k].height >>,
                      << files[k].height, files[k].width >> } : k \in 1..Len(files) } :
            files \in Picks }

Rects == [size \in Sizes |-> Layout(size[1], size[2])]

\* the load event of img: the canvas is drawn, the promise resolves and the loop
\* goes on up to its next await, or to the save
imgOnload ==
    /\ pc = "loading"
    /\ snap[i + 1].file.decodes
    /\ LET imageData == loadImageWithRotation(snap[i + 1])
           rect == Rects[<< imageData.width, imageData.height >>]
           doc == AddImage(pdf, imageData, rect)
       IN  \/ /\ AddImageMayThrow(imageData)
              /\ Failed
           \/ /\ i + 1 < Len(snap)
              /\ pdf' = Append(doc, << >>)
              /\ i' = i + 1
              /\ img' = SetSrc(snap[i + 2])
              /\ UNCHANGED << isGenerating, pc, snap, saved, alerts >>
           \/ /\ i + 1 = Len(snap)
              /\ saved' = Append(saved, doc)
              /\ isGenerating' = FALSE
              /\ pc' = "idle"
              /\ snap' = << >>
              /\ i' = 0
              /\ img' = << >>
              /\ pdf' = << >>
              /\ UNCHANGED alerts
    /\ UNCHANGED storeVars

\* the error event of img: the image has no onerror handler and the promise has
\* no reject, so nothing runs and generatePDF stays suspended
imgOnerror ==
    /\ pc = "loading"
    /\ ~snap[i + 1].file.decodes \/ ~img[1].found
    /\ pc' = "stuck"
    /\ img' = << >>
    /\ UNCHANGED << isGenerating, snap, i, pdf, saved, alerts >>
    /\ UNCHANGED storeVars

(***************************************************************************)
(* The list alone: the handlers of lines 21-85 called in any order, with   *)
(* any argument, an id that is no longer in the list included.             *)
(***************************************************************************)
ListOnly == UNCHANGED exportVars /\ UNCHANGED << events, lay >>

Add ==
    /\ \E files \in Picks :
        /\ nextId + Len(Filter(files)) - 1 <= MaxImages
        /\ handleFileSelect(files)
        /\ last' = << "handleFileSelect", Len(Filter(files)) >>
    /\ rots' = [id \in 1..(nextId' - 1) |-> IF id < nextId THEN rots[id] ELSE 0]
    /\ ListOnly

Rotate ==
    /\ \E id \in Ids :
        /\ id < nextId
        /\ rots[id] < MaxRotations
        /\ rotateImage(id)
        /\ last' = << "rotateImage", id >>
        /\ rots' = IF \E k \in 1..Len(images) : images[k].id = id
                   THEN [rots EXCEPT ![id] = @ + 1] ELSE rots
    /\ ListOnly

MoveUp ==
    /\ \E index \in 0..(Len(images) - 1) :
        moveUp(index) /\ last' = << "moveUp", index >>
    /\ UNCHANGED rots
    /\ ListOnly

MoveDown ==
    /\ \E index \in 0..(Len(images) - 1) :
        moveDown(index) /\ last' = << "moveDown", index >>
    /\ UNCHANGED rots
    /\ ListOnly

Remove ==
    /\ \E id \in Ids :
        id < nextId /\ removeImage(id) /\ last' = << "removeImage", id >>
    /\ UNCHANGED rots
    /\ ListOnly

Clear ==
    /\ Len(images) # 0
    /\ clearAll
    /\ last' = << "clearAll", 0 >>
    /\ UNCHANGED rots
    /\ ListOnly

StoreNext ==
    \/ Add
    \/ Rotate
    \/ MoveUp
    \/ MoveDown
    \/ Remove
    \/ Clear

SpecStore == Init /\ [][StoreNext]_vars

(***************************************************************************)
(* The component: the user's clicks in any order, interleaved with the     *)
(* image events of the export.  Each control acts on a row that is shown.  *)
(***************************************************************************)
Click ==
    /\ events < MaxEvents
    /\ events' = events + 1
    /\ UNCHANGED << rots, last, lay >>

SelectFiles ==
    /\ \E files \in Picks :
        /\ nextId + Len(Filter(files)) - 1 <= MaxImages
        /\ handleFileSelect(files)
    /\ UNCHANGED exportVars
    /\ Click

ClickRotate ==
    /\ \E k \in 1..Len(images) : rotateImage(images[k].id)
    /\ UNCHANGED exportVars
    /\ Click

\* the button of the first row is disabled (line 265)
ClickMoveUp ==
    /\ \E index \in 1..(Len(images) - 1) : moveUp(index)
    /\ UNCHANGED exportVars
    /\ Click

\* the button of the last row is disabled (line 273)
ClickMoveDown ==
    /\ \E index \in 0..(Len(images) - 2) : moveDown(index)
    /\ UNCHANGED exportVars
    /\ Click

ClickRemove ==
    /\ \E k \in 1..Len(images) : removeImage(images[k].id)
    /\ UNCHANGED exportVars
    /\ Click

ClickClear ==
    /\ Len(images) # 0
    /\ clearAll
    /\ UNCHANGED exportVars
    /\ Click

ClickCreate == generatePDF /\ Click

Load == imgOnload /\ UNCHANGED << rots, events, last, lay >>

Error == imgOnerror /\ UNCHANGED << rots, events, last, lay >>

Next ==
    \/ SelectFiles
    \/ ClickRotate
    \/ ClickMoveUp
    \/ ClickMoveDown
    \/ ClickRemove
    \/ ClickClear
    \/ ClickCreate
    \/ Load
    \/ Error

Spec == Init /\ [][Next]_vars

\* the browser ends every image load with a load event or an error event
FairSpec == Spec /\ WF_vars(Load) /\ WF_vars(Error)

(***************************************************************************)
(* One image alone: an entry of any size and angle is rendered             *)
(* (lines 88-120) and its rectangle computed (lines 147-164).              *)
(***************************************************************************)
Dims == (0..MaxDim) \cup {600, 800}

LayoutInit ==
    /\ Idle
    /\ \E width \in Dims, height \in Dims, rotation \in Rotations :
        lay = [NoLayout EXCEPT
                  !.pc = "entry",
                  !.entry = << [id |-> 1, url |-> 1, rotation |-> rotation,
                                file |-> File("image", "jpeg", TRUE, width, height)] >>]

Render ==
    /\ lay.pc = "entry"
    /\ lay' = [lay EXCEPT !.pc = "raster",
                          !.raster = << loadImageWithRotation(lay.entry[1]) >>]
    /\ UNCHANGED << images, isGenerating, nextId, released, pc, snap, i, img, pdf,
                    saved, alerts, rots, events, last >>

Place ==
    /\ lay.pc = "raster"
    /\ lay' = [lay EXCEPT !.pc = "laid",
                          !.rect = << Layout(lay.raster[1].width, lay.raster[1].height) >>]
    /\ UNCHANGED << images, isGenerating, nextId, released, pc, snap, i, img, pdf,
                    saved, alerts, rots, events, last >>

LayoutNext == Render \/ Place

SpecLayout == LayoutInit /\ [][LayoutNext]_vars

(***************************************************************************)
(* The properties of the list, checked under SpecStore.                    *)
(***************************************************************************)
\* C4: in every state reachable by add, rotate, moveUp, moveDown, remove and
\* clear, every entry of the list has its rotation in {0, 90, 180, 270} and
\* no two entries of the list have the same id.
C4_RotationsAndIds ==
    /\ \A k \in 1..Len(images) : images[k].rotation \in Rotations
    /\ \A j, k \in 1..Len(images) : images[j].id = images[k].id => j = k

\* two entries, moved, one of them rotated past a full turn
C4_Witness ==
    /\ Len(images) = 2
    /\ images[1].id > images[2].id
    /\ \E k \in 1..2 : rots[images[k].id] = 5 /\ images[k].rotation = 90

\* C5: rotateImage(id) applied k times to an entry of the list gives it the
\* rotation (90 * k) mod 360, starting from 0; a call changes no other entry,
\* no other field and not the order; with an id that is not in the list it
\* leaves the list as it is.
C5_Rotate ==
    [][/\ \A k \in 1..Len(images') :
            images'[k].rotation = (90 * rots'[images'[k].id]) % 360
       /\ \A id \in Ids :
            last' = << "rotateImage", id >> =>
                /\ Len(images') = Len(images)
                /\ \A k \in 1..Len(images) :
                    IF images[k].id = id
                    THEN /\ images'[k].rotation = (images[k].rotation + 90) % 360
                         /\ images'[k].id = id
                         /\ images'[k].url = images[k].url
                         /\ images'[k].file = images[k].file
                    ELSE images'[k] = images[k]
                /\ (\A k \in 1..Len(images) : images[k].id # id) => images' = images
                /\ released' = released]_vars

\* an entry rotated four times, back at 0, next to one rotated once
C5_Witness ==
    /\ Len(images) = 2
    /\ rots[images[1].id] = 4 /\ images[1].rotation = 0
    /\ rots[images[2].id] = 1 /\ images[2].rotation = 90
    /\ last = << "rotateImage", images[1].id >>

C7_ReleasedOnce ==
    \A u \in DOMAIN released :
        IF \E k \in 1..Len(images) : images[k].url = u
        THEN released[u] = 0
        ELSE released[u] = 1

\* one entry was removed and its URL revoked once, the other one staying
C7_Witness ==
    /\ Len(images) = 1
    /\ \E id \in Ids :
        /\ last = << "removeImage", id >>
        /\ id # images[1].id
        /\ released = [u \in 1..2 |-> IF u = id THEN 1 ELSE 0]

(***************************************************************************)
(* The properties of the layout, checked under SpecLayout.  The numbers    *)
(* are the doubles the code computes, the relations are JavaScript's.      *)
(***************************************************************************)
\* a <= b (false when either is NaN)
FLe(a, b) ==
    With(<< a, b >>, LAMBDA v :
        v[1].cls # "nan" /\ v[2].cls # "nan" /\ ~FGtValues(v[1], v[2]))

\* a === b
FEq(a, b) == With(<< a, b >>, LAMBDA v : v[1].cls # "nan" /\ v[1] = v[2])

\* Number.isFinite(a)
IsFinite(a) == a.cls = "num"

\* 2^-51: four roundings of a double, each of at most 2^-53 of the value
Tolerance == FDiv(FInt(1), FMul(FInt(2^26), FInt(2^25)))

Within(rect) ==
    /\ FLe(rect.width, FInt(maxWidth))
    /\ FLe(rect.height, FInt(maxHeight))

Centered(rect) ==
    /\ FEq(FAdd(rect.x, FDiv(rect.width, FInt(2))), FDiv(FInt(pageWidth), FInt(2)))
    /\ FEq(FAdd(rect.y, FDiv(rect.height, FInt(2))), FDiv(FInt(pageHeight), FInt(2)))

\* 800 x 600 gives width 190, height 142.5, x 10, y 77.25
Example(raster, rect) ==
    (raster.width = 800 /\ raster.height = 600) =>
        /\ FEq(rect.width, FInt(190))
        /\ FEq(rect.height, FDiv(FInt(285), FInt(2)))
        /\ FEq(rect.x, FInt(10))
        /\ FEq(rect.y, FDiv(FInt(309), FInt(4)))

\* C8, as amended: for every rendered raster with pixelWidth > 0 and
\* pixelHeight > 0 on the 210 x 297 page with margin 10, the rectangle has
\* width <= 190 and height <= 277, is centered (x + width/2 = 105 and
\* y + height/2 = 148.5), and keeps the aspect ratio up to the rounding of
\* the doubles: width * pixelHeight and height * pixelWidth differ by at most
\* 2^-51 of height * pixelWidth; 800 x 600 gives exactly 190, 142.5, 10, 77.25.
C8_LayoutWithinRounding ==
    (lay.pc = "laid" /\ lay.raster[1].width > 0 /\ lay.raster[1].height > 0) =>
        LET raster == lay.raster[1]
            rect == lay.rect[1]
            a == FMul(rect.width, FInt(raster.height))
            b == FMul(rect.height, FInt(raster.width))
        IN  /\ Within(rect)
            /\ Centered(rect)
            /\ Example(raster, rect)
            /\ FLe(FSub(a, b), FMul(Tolerance, b))
            /\ FLe(FSub(b, a), FMul(Tolerance, b))

\* C8, as stated: the same with width * pixelHeight = height * pixelWidth
C8_LayoutExact ==
    (lay.pc = "laid" /\ lay.raster[1].width > 0 /\ lay.raster[1].height > 0) =>
        LET raster == lay.raster[1]
            rect == lay.rect[1]
        IN  /\ Within(rect)
            /\ Centered(rect)
            /\ Example(raster, rect)
            /\ FEq(FMul(rect.width, FInt(raster.height)),
                   FMul(rect.height, FInt(raster.width)))

\* the 600 x 800 file turned by 90 degrees, laid out as the 800 x 600 raster
C8_Witness ==
    /\ lay.pc = "laid"
    /\ lay.entry[1].rotation = 90
    /\ lay.raster[1].width = 800 /\ lay.raster[1].height = 600
    /\ FEq(lay.rect[1].y, FDiv(FInt(309), FInt(4)))

\* C9, as stated: a raster with pixelHeight = 0 gets no rectangle, the layout
\* failing instead, and no rectangle has an infinite or NaN x, y, width or
\* height.
C9_ZeroHeightRejected ==
    lay.pc = "laid" =>
        /\ lay.raster[1].height # 0
        /\ IsFinite(lay.rect[1].x) /\ IsFinite(lay.rect[1].y)
        /\ IsFinite(lay.rect[1].width) /\ IsFinite(lay.rect[1].height)

(***************************************************************************)
(* The properties of the export, checked under Spec and FairSpec.          *)
(***************************************************************************)
\* C1: every document handed to pdf.save has exactly one page per entry of
\* the list the export was started on, page N holding the rendering of the
\* entry at position N and nothing else; and while the export runs, the
\* document holds the pages of the entries already rendered, in order, and one
\* empty page for the entry being loaded, so that no page gets ahead of the
\* page before it.
C1_PagesInListOrder ==
    [][LET Rendering(page, entry) ==
               /\ Len(page) = 1
               /\ page[1].dataUrl = [src |-> entry.url, rotation |-> entry.rotation]
       IN  /\ (pc = "idle" /\ pc' = "loading") => snap' = images
           /\ (pc = "loading" /\ pc' = "loading") => snap' = snap
           /\ pc' = "loading" =>
                /\ Len(pdf') = i' + 1
                /\ pdf'[i' + 1] = << >>
                /\ \A n \in 1..i' : Rendering(pdf'[n], snap'[n])
           /\ saved' # saved /\ saved' # << >> =>
                /\ Len(saved') = 1
                /\ Len(saved'[1]) = Len(snap)
                /\ \A n \in 1..Len(snap) : Rendering(saved'[1][n], snap[n])]_vars

\* a document of two pages, the second turned by 90 degrees, saved after an
\* entry was removed from the list during the export
C1_Witness ==
    /\ Len(saved) = 1
    /\ Len(saved[1]) = 2
    /\ saved[1][1][1].dataUrl = [src |-> 1, rotation |-> 0]
    /\ saved[1][2][1].dataUrl = [src |-> 2, rotation |-> 90]
    /\ Len(images) = 1

\* C2, as stated: when the source of an entry of the export cannot be decoded
\* (its load ends with the error event), the export ends with one failure
\* shown to the user, no document saved and the list as it was.
C2_DecodeFailureSignalled ==
    [][(Error /\ ~snap[i + 1].file.decodes) =>
           /\ alerts' = 1
           /\ ~isGenerating'
           /\ saved' = << >>
           /\ images' = images]_vars

\* C3, as stated: every export that was started ends, with a saved document
\* or a failure shown, and isGenerating back to false.
C3_ExportEnds ==
    (pc = "loading") ~> (pc = "idle" /\ ~isGenerating /\ (saved # << >> \/ alerts > 0))

\* C10, as stated: no entry is rendered by the export (its load event drawn to
\* the canvas) after its object URL was revoked.
C10_NoRenderAfterRelease ==
    [][Load => released[snap[i + 1].url] = 0]_vars

====
